---- MODULE Spec2Model ----
(***************************************************************************)
(* A model of Pak (src/Pak.h): a header-less binary codec.  One Pak owns   *)
(* a byte vector and three counters (reserveSize, writePosition,           *)
(* readPosition).  write(args...) runs the generic traversal parse twice   *)
(* (Op<Reserve>, then Op<Write>) with one resize between them; read runs   *)
(* it once (Op<Read>).                                                     *)
(*                                                                         *)
(* Values.  An arithmetic value is its bit pattern, written as the         *)
(* sequence of its bytes from the least significant one (so 0x0102 is      *)
(* <<2, 1>>); ObjBytes gives the bytes of the object in the host's memory. *)
(* Every value carries its C++ type t, which is what overload resolution   *)
(* dispatches on.                                                          *)
(***************************************************************************)
EXTENDS Integers, Sequences, FiniteSets, TLC

\* ------------------------------------------------------------------ bounds
\* Calls of write and of read on the one Pak, together.
MaxCalls == 3
\* The longest dynamic sequence handed to write.
MaxLen == 3
\* The largest element count a read resizes a destination to; a larger
\* decoded count ends the run (the allocation or the copy fails).
MaxCount == 3
\* How many elements one node of a std::deque holds (the library's choice,
\* scaled down); a longer deque is not contiguous in memory.
DequeNodeElems == 2

\* sizeof(std::uint32_t), the element count of a container (Pak.h:255).
CountBytes == 4

\* ----------------------------------------------------------------- helpers
Reverse(s) == [i \in 1..Len(s) |-> s[Len(s) + 1 - i]]

RECURSIVE Flatten(_)
Flatten(ss) == IF ss = <<>> THEN <<>> ELSE Head(ss) \o Flatten(Tail(ss))

RECURSIVE SumSeq(_)
SumSeq(s) == IF s = <<>> THEN 0 ELSE Head(s) + SumSeq(Tail(s))

\* The w bytes of the number n, least significant first.
RECURSIVE Digits(_, _)
Digits(n, w) == IF w = 0 THEN <<>> ELSE <<n % 256>> \o Digits(n \div 256, w - 1)

\* The number of a byte pattern of at most 3 significant bytes.
Num(d) == SumSeq([i \in 1..Len(d) |->
            IF i = 1 THEN d[i] ELSE IF i = 2 THEN 256 * d[i]
            ELSE IF i = 3 THEN 65536 * d[i] ELSE 0])

\* ------------------------------------------------------------------- types
Prim(kind, w) == [cat |-> "prim", kind |-> kind, w |-> w]
U8 == Prim("int", 1)
U16 == Prim("int", 2)
I32 == Prim("int", 4)
I64 == Prim("int", 8)
F32 == Prim("float", 4)
F64 == Prim("float", 8)
U32 == Prim("int", CountBytes)

PairT(a, b) == [cat |-> "pair", first |-> a, second |-> b]
RawArrayT(e, n) == [cat |-> "rawarray", elem |-> e, n |-> n]
StdArrayT(e, n) == [cat |-> "stdarray", elem |-> e, n |-> n]
\* impl: "vector", "list" or "deque"
SeqT(impl, e) == [cat |-> "seq", impl |-> impl, elem |-> e]
MapT(k, v) == [cat |-> "map", key |-> k, val |-> v]
\* a type with a serialize hook that forwards its fields, in order
UserT(fs) == [cat |-> "user", fields |-> fs]

\* ------------------------------------------------------------------ values
PrimV(t, d) == [t |-> t, d |-> d]
PairV(a, b) == [t |-> PairT(a.t, b.t), first |-> a, second |-> b]
RawArrayV(e, es) == [t |-> RawArrayT(e, Len(es)), elems |-> es]
StdArrayV(e, es) == [t |-> StdArrayT(e, Len(es)), elems |-> es]
SeqV(impl, e, es) == [t |-> SeqT(impl, e), elems |-> es]
MapV(k, v, es) == [t |-> MapT(k, v), entries |-> es]
UserV(fs) == [t |-> UserT([i \in 1..Len(fs) |-> fs[i].t]), fields |-> fs]

\* T t; / T() : the value a default-constructed or value-initialised T has.
RECURSIVE DefaultOf(_)
DefaultOf(t) ==
  CASE t.cat = "prim" -> PrimV(t, [i \in 1..t.w |-> 0])
    [] t.cat = "pair" -> PairV(DefaultOf(t.first), DefaultOf(t.second))
    [] t.cat = "rawarray" -> RawArrayV(t.elem, [i \in 1..t.n |-> DefaultOf(t.elem)])
    [] t.cat = "stdarray" -> StdArrayV(t.elem, [i \in 1..t.n |-> DefaultOf(t.elem)])
    [] t.cat = "seq" -> SeqV(t.impl, t.elem, <<>>)
    [] t.cat = "map" -> MapV(t.key, t.val, <<>>)
    [] t.cat = "user" -> UserV([i \in 1..Len(t.fields) |-> DefaultOf(t.fields[i])])

\* ------------------------------------------------------- endian normalizer
\* shouldByteSwap<T>(): integral types wider than a byte, on a big-endian host.
shouldByteSwap(t, bigEndian) == t.w > 1 /\ t.kind = "int" /\ bigEndian

\* byteSwap(T&): the builtin swaps of the 2, 4 and 8 byte integers; every
\* other type falls to byteSwap(...), which does nothing.
byteSwap(t, d) == IF t.kind = "int" /\ t.w \in {2, 4, 8} THEN Reverse(d) ELSE d

\* The bytes of an object of value d in the host's memory, and back.
ObjBytes(d, bigEndian) == IF bigEndian THEN Reverse(d) ELSE d
ValueOf(mem, bigEndian) == IF bigEndian THEN Reverse(mem) ELSE mem

\* copyPrimitive(dst, src): the value dst holds afterwards.
copyPrimitive(t, src, bigEndian) ==
  IF shouldByteSwap(t, bigEndian) THEN byteSwap(t, src) ELSE src

\* copyPrimitiveArray(dst, src, numBytes): memcpy, then the swap of every
\* element in place; mem is the source memory, the result the destination's.
copyPrimitiveArray(t, mem, bigEndian) ==
  IF Len(mem) > 0 /\ shouldByteSwap(t, bigEndian)
  THEN Flatten([k \in 1..(Len(mem) \div t.w) |->
         ObjBytes(byteSwap(t, ValueOf(SubSeq(mem, (k - 1) * t.w + 1, k * t.w), bigEndian)),
                  bigEndian)])
  ELSE mem

\* ------------------------------------------------------ capability traits
\* The iterators parse is handed for the range of a value of type t:
\* lvalue is whether they are named variables (T deduced as a reference),
\* category their std::iterator_traits category.  A raw array passes the
\* variables begin and end (Pak.h:230-233); std::array and the containers
\* pass the temporaries t.begin(), t.end().
IteratorOf(t) ==
  CASE t.cat = "rawarray" -> [lvalue |-> TRUE, category |-> "random_access"]
    [] t.cat = "stdarray" -> [lvalue |-> FALSE, category |-> "random_access"]
    [] t.cat = "seq" -> [lvalue |-> FALSE,
                         category |-> IF t.impl \in {"vector", "deque"}
                                      THEN "random_access" ELSE "bidirectional"]
    [] t.cat = "map" -> [lvalue |-> FALSE, category |-> "bidirectional"]

\* enable_if_contiguous_range<T>: is_iterator<T> (false of a reference type),
\* an arithmetic value type and a random-access iterator.
enable_if_contiguous_range(it, e) ==
  ~it.lvalue /\ e.cat = "prim" /\ it.category = "random_access"

\* The numBytes bytes of memory that start at &(*begin).  A vector, a string
\* and a std::array store their elements there.  A deque stores only the
\* elements of its first node there; what lies behind the node is not the
\* deque's (junk stands for the bytes found there).
RangeMemory(t, elems, bigEndian, junk) ==
  LET inPlace == IF t.cat = "seq" /\ t.impl = "deque" /\ Len(elems) > DequeNodeElems
                 THEN DequeNodeElems ELSE Len(elems)
  IN Flatten([i \in 1..Len(elems) |->
       IF i <= inPlace THEN ObjBytes(elems[i].d, bigEndian)
       ELSE [k \in 1..t.elem.w |-> junk]])

\* static_cast<std::uint32_t>(container.size())
containerSize(n) == PrimV(U32, Digits(n, CountBytes))

\* -------------------------------------------------------------- Op<Reserve>
\* parse(Op<Reserve>, ...) of one value: the increments of reserveSize, one
\* for every handler that adds to it, in the order of the visit.
RECURSIVE parseReserve(_)

parseReservePrimitive(t) == <<t.w>>

parseReserveContiguous(e, elems) == <<Len(elems) * e.w>>

parseReserveRange(t, e, elems) ==
  IF enable_if_contiguous_range(IteratorOf(t), e)
  THEN parseReserveContiguous(e, elems)
  ELSE Flatten([i \in 1..Len(elems) |-> parseReserve(elems[i])])

\* parseReserveContainer with the count left out of the reservation.
parseReserveContainerNoCount(t, e, elems) == parseReserveRange(t, e, elems)

parseReserveContainer(t, e, elems) ==
  parseReserve(containerSize(Len(elems))) \o parseReserveRange(t, e, elems)

parseReserve(v) ==
  CASE v.t.cat = "prim" -> parseReservePrimitive(v.t)
    [] v.t.cat = "pair" -> parseReserve(v.first) \o parseReserve(v.second)
    [] v.t.cat \in {"rawarray", "stdarray"} -> parseReserveRange(v.t, v.t.elem, v.elems)
    [] v.t.cat = "seq" -> parseReserveContainer(v.t, v.t.elem, v.elems)
    [] v.t.cat = "map" -> parseReserveContainer(v.t, PairT(v.t.key, v.t.val), v.entries)
    [] v.t.cat = "user" -> Flatten([i \in 1..Len(v.fields) |-> parseReserve(v.fields[i])])

\* ---------------------------------------------------------------- Op<Write>
\* parse(Op<Write>, ...) of one value: the runs of bytes stored at
\* writePosition, one for every handler that stores, in the order of the visit.
RECURSIVE parseWrite(_, _, _)

parseWritePrimitive(t, d, bigEndian) ==
  <<ObjBytes(copyPrimitive(t, d, bigEndian), bigEndian)>>

parseWriteContiguous(t, e, elems, bigEndian, junk) ==
  <<copyPrimitiveArray(e, RangeMemory(t, elems, bigEndian, junk), bigEndian)>>

parseWriteRange(t, e, elems, bigEndian, junk) ==
  IF enable_if_contiguous_range(IteratorOf(t), e)
  THEN parseWriteContiguous(t, e, elems, bigEndian, junk)
  ELSE Flatten([i \in 1..Len(elems) |-> parseWrite(elems[i], bigEndian, junk)])

parseWriteContainer(t, e, elems, bigEndian, junk) ==
  parseWrite(containerSize(Len(elems)), bigEndian, junk)
    \o parseWriteRange(t, e, elems, bigEndian, junk)

parseWrite(v, bigEndian, junk) ==
  CASE v.t.cat = "prim" -> parseWritePrimitive(v.t, v.d, bigEndian)
    [] v.t.cat = "pair" -> parseWrite(v.first, bigEndian, junk)
                             \o parseWrite(v.second, bigEndian, junk)
    [] v.t.cat \in {"rawarray", "stdarray"} ->
         parseWriteRange(v.t, v.t.elem, v.elems, bigEndian, junk)
    [] v.t.cat = "seq" -> parseWriteContainer(v.t, v.t.elem, v.elems, bigEndian, junk)
    [] v.t.cat = "map" ->
         parseWriteContainer(v.t, PairT(v.t.key, v.t.val), v.entries, bigEndian, junk)
    [] v.t.cat = "user" ->
         Flatten([i \in 1..Len(v.fields) |-> parseWrite(v.fields[i], bigEndian, junk)])

\* parse(op, args...): the single-argument overload, argument after argument.
parseReserveArgs(args) == Flatten([i \in 1..Len(args) |-> parseReserve(args[i])])
parseWriteArgs(args, bigEndian, junk) ==
  Flatten([i \in 1..Len(args) |-> parseWrite(args[i], bigEndian, junk)])

\* ----------------------------------------------------------------- Op<Read>
\* bytes[readPosition ..]: n bytes from the cursor on.  operator[] checks no
\* index, so a byte behind the end of the vector is whatever the memory there
\* holds (junk).
Fetch(bytes, rp, n, junk) ==
  [i \in 1..n |-> IF rp + i <= Len(bytes) THEN bytes[rp + i] ELSE junk]

\* The element count a decoded std::uint32_t stands for, capped above MaxCount.
CountOf(d) == IF d[4] = 0 /\ Num(d) <= MaxCount THEN Num(d) ELSE MaxCount + 1

\* t.insert(t.end(), p) of a std::map kept as its entries in key order: an
\* entry whose key is present already is not inserted.
insertHint(entries, p) ==
  IF \E i \in 1..Len(entries) : entries[i].first = p.first THEN entries
  ELSE LET below == SelectSeq(entries, LAMBDA x : Num(x.first.d) < Num(p.first.d))
           above == SelectSeq(entries, LAMBDA x : Num(x.first.d) > Num(p.first.d))
       IN below \o <<p>> \o above

\* t.resize(n): the first elements stay, new ones are value-initialised.
resize(e, elems, n) ==
  [i \in 1..n |-> IF i <= Len(elems) THEN elems[i] ELSE DefaultOf(e)]

\* parse(Op<Read>, ...) into the destination dest, from the cursor rp on:
\*   v    the destination afterwards       rp   the cursor afterwards
\*   oob  memory of no object was touched (a byte behind the end of the
\*        vector read, bytes copied behind the first node of a deque)
\*   big  a decoded count was above MaxCount
RECURSIVE parseRead(_, _, _, _, _)
RECURSIVE parseReadEach(_, _, _, _, _)
RECURSIVE parseReadMapEntries(_, _, _, _, _, _, _)

parseReadPrimitive(t, bytes, rp, bigEndian, junk) ==
  [v |-> PrimV(t, copyPrimitive(t, ValueOf(Fetch(bytes, rp, t.w, junk), bigEndian), bigEndian)),
   rp |-> rp + t.w, oob |-> rp + t.w > Len(bytes), big |-> FALSE]

\* parseReadContiguous with the cursor advanced by the number of elements
\* (the sizeof factor of numBytes left out).
parseReadContiguousNoSizeof(t, e, elems, bytes, rp, bigEndian, junk) ==
  LET mem == copyPrimitiveArray(e, Fetch(bytes, rp, Len(elems) * e.w, junk), bigEndian)
  IN [vs |-> [k \in 1..Len(elems) |->
                PrimV(e, ValueOf(SubSeq(mem, (k - 1) * e.w + 1, k * e.w), bigEndian))],
      rp |-> rp + Len(elems), oob |-> rp + Len(elems) * e.w > Len(bytes), big |-> FALSE]

\* The contiguous overload: one copyPrimitiveArray into the memory at
\* &(*begin).  Of a deque only the first node is there; the bytes copied
\* behind it land outside the deque, whose later elements keep their values.
parseReadContiguous(t, e, elems, bytes, rp, bigEndian, junk) ==
  LET numBytes == Len(elems) * e.w
      mem == copyPrimitiveArray(e, Fetch(bytes, rp, numBytes, junk), bigEndian)
      inPlace == IF t.cat = "seq" /\ t.impl = "deque" /\ Len(elems) > DequeNodeElems
                 THEN DequeNodeElems ELSE Len(elems)
  IN [vs |-> [k \in 1..Len(elems) |->
                IF k <= inPlace
                THEN PrimV(e, ValueOf(SubSeq(mem, (k - 1) * e.w + 1, k * e.w), bigEndian))
                ELSE elems[k]],
      rp |-> rp + numBytes,
      oob |-> rp + numBytes > Len(bytes) \/ inPlace < Len(elems),
      big |-> FALSE]

parseReadEach(dests, bytes, rp, bigEndian, junk) ==
  IF dests = <<>> THEN [vs |-> <<>>, rp |-> rp, oob |-> FALSE, big |-> FALSE]
  ELSE LET h == parseRead(Head(dests), bytes, rp, bigEndian, junk) IN
       IF h.big THEN [vs |-> <<>>, rp |-> h.rp, oob |-> h.oob, big |-> TRUE]
       ELSE LET r == parseReadEach(Tail(dests), bytes, h.rp, bigEndian, junk) IN
            [vs |-> <<h.v>> \o r.vs, rp |-> r.rp, oob |-> h.oob \/ r.oob, big |-> r.big]

parseReadRange(t, e, elems, bytes, rp, bigEndian, junk) ==
  IF enable_if_contiguous_range(IteratorOf(t), e)
  THEN parseReadContiguous(t, e, elems, bytes, rp, bigEndian, junk)
  ELSE parseReadEach(elems, bytes, rp, bigEndian, junk)

\* for(i < numElements) t.insert(t.end(), read<value_type>())
parseReadMapEntries(t, n, entries, bytes, rp, bigEndian, junk) ==
  IF n = 0 THEN [vs |-> entries, rp |-> rp, oob |-> FALSE, big |-> FALSE]
  ELSE LET p == parseRead(DefaultOf(PairT(t.key, t.val)), bytes, rp, bigEndian, junk) IN
       IF p.big THEN [vs |-> entries, rp |-> p.rp, oob |-> p.oob, big |-> TRUE]
       ELSE LET r == parseReadMapEntries(t, n - 1, insertHint(entries, p.v),
                                         bytes, p.rp, bigEndian, junk) IN
            [vs |-> r.vs, rp |-> r.rp, oob |-> p.oob \/ r.oob, big |-> r.big]

parseReadMap(t, bytes, rp, bigEndian, junk) ==
  LET c == parseReadPrimitive(U32, bytes, rp, bigEndian, junk)
      numElements == CountOf(c.v.d)
  IN IF numElements > MaxCount
     THEN [v |-> MapV(t.key, t.val, <<>>), rp |-> c.rp, oob |-> c.oob, big |-> TRUE]
     ELSE LET r == parseReadMapEntries(t, numElements, <<>>, bytes, c.rp, bigEndian, junk) IN
          [v |-> MapV(t.key, t.val, r.vs), rp |-> r.rp, oob |-> c.oob \/ r.oob, big |-> r.big]

parseReadContainer(t, elems, bytes, rp, bigEndian, junk) ==
  LET c == parseReadPrimitive(U32, bytes, rp, bigEndian, junk)
      n == CountOf(c.v.d)
  IN IF n > MaxCount
     THEN [v |-> SeqV(t.impl, t.elem, elems), rp |-> c.rp, oob |-> c.oob, big |-> TRUE]
     ELSE LET r == parseReadRange(t, t.elem, resize(t.elem, elems, n),
                                  bytes, c.rp, bigEndian, junk) IN
          [v |-> SeqV(t.impl, t.elem, r.vs), rp |-> r.rp, oob |-> c.oob \/ r.oob, big |-> r.big]

parseRead(dest, bytes, rp, bigEndian, junk) ==
  LET t == dest.t IN
  CASE t.cat = "prim" -> parseReadPrimitive(t, bytes, rp, bigEndian, junk)
    [] t.cat = "pair" ->
         LET r == parseReadEach(<<dest.first, dest.second>>, bytes, rp, bigEndian, junk) IN
         [v |-> IF r.big THEN dest ELSE PairV(r.vs[1], r.vs[2]),
          rp |-> r.rp, oob |-> r.oob, big |-> r.big]
    [] t.cat = "rawarray" ->
         LET r == parseReadRange(t, t.elem, dest.elems, bytes, rp, bigEndian, junk) IN
         [v |-> IF r.big THEN dest ELSE RawArrayV(t.elem, r.vs),
          rp |-> r.rp, oob |-> r.oob, big |-> r.big]
    [] t.cat = "stdarray" ->
         LET r == parseReadRange(t, t.elem, dest.elems, bytes, rp, bigEndian, junk) IN
         [v |-> IF r.big THEN dest ELSE StdArrayV(t.elem, r.vs),
          rp |-> r.rp, oob |-> r.oob, big |-> r.big]
    [] t.cat = "seq" -> parseReadContainer(t, dest.elems, bytes, rp, bigEndian, junk)
    [] t.cat = "map" -> parseReadMap(t, bytes, rp, bigEndian, junk)
    [] t.cat = "user" ->
         LET r == parseReadEach(dest.fields, bytes, rp, bigEndian, junk) IN
         [v |-> IF r.big THEN dest ELSE UserV(r.vs),
          rp |-> r.rp, oob |-> r.oob, big |-> r.big]

\* ------------------------------------------------------------------ inputs
\* Bytes found in memory that belongs to no object of the program.
Junk == {0, 255}

u8(n) == PrimV(U8, Digits(n, 1))
u16(n) == PrimV(U16, Digits(n, 2))
i32(n) == PrimV(I32, Digits(n, 4))
f32(n) == PrimV(F32, Digits(n, 4))
\* std::uint32_t 0x01020304, and the floats 1.0f and the next one up
X01020304 == i32(16909060)
OneF == f32(1065353216)
NextF == f32(1065353217)
\* 0x0807060504030201 and 1.0
i64 == PrimV(I64, [i \in 1..8 |-> i])
f64 == PrimV(F64, <<0, 0, 0, 0, 0, 0, 240, 63>>)

\* {7, 8, 9, ...} as ints, {0x0102, 0x0304, ...} as shorts, {1: 'a', 2: 'b', ...}
Ints(n) == [i \in 1..n |-> i32(6 + i)]
Shorts(n) == [i \in 1..n |-> u16(512 * i - 254)]
Entries(n) == [i \in 1..n |-> PairV(u8(i), u16(96 + i))]

\* struct { std::uint8_t a; std::vector<std::uint16_t> b; serialize(op) { op(a, b); } }
Composite == UserV(<<u8(5), SeqV("vector", U16, Shorts(2))>>)

\* std::vector<std::list<std::uint8_t>> {{1}, {}}
Nested == SeqV("vector", SeqT("list", U8), <<SeqV("list", U8, <<u8(1)>>), SeqV("list", U8, <<>>)>>)

Integers == <<u8(7), u16(258), X01020304, i64>>
Floats == <<OneF, f64, StdArrayV(F32, <<OneF, NextF>>)>>
Fixed == <<PairV(u8(7), X01020304), RawArrayV(U16, Shorts(2)), StdArrayV(U16, Shorts(2))>>
Mixed == <<u16(258), Composite, Nested, SeqV("vector", F32, <<OneF>>)>>

\* The argument lists write is called with.
ArgLists ==
  {Integers, Floats, Fixed, Mixed}
    \cup {<<SeqV("vector", I32, Ints(n))>> : n \in {0, MaxLen}}
    \cup {<<SeqV("list", I32, Ints(MaxLen))>>}
    \cup {<<SeqV("deque", I32, Ints(n))>> : n \in {DequeNodeElems, MaxLen}}
    \cup {<<MapV(U8, U16, Entries(n))>> : n \in {0, 2}}

\* A destination of type t that holds earlier content where t can.
RECURSIVE Stale(_)
Stale(t) ==
  CASE t.cat = "prim" -> PrimV(t, [i \in 1..t.w |-> 85])
    [] t.cat = "pair" -> PairV(Stale(t.first), Stale(t.second))
    [] t.cat = "rawarray" -> RawArrayV(t.elem, [i \in 1..t.n |-> Stale(t.elem)])
    [] t.cat = "stdarray" -> StdArrayV(t.elem, [i \in 1..t.n |-> Stale(t.elem)])
    [] t.cat = "seq" -> SeqV(t.impl, t.elem, [i \in 1..MaxLen |-> Stale(t.elem)])
    [] t.cat = "map" -> MapV(t.key, t.val, <<PairV(PrimV(t.key, [i \in 1..t.key.w |-> 9]),
                                                 Stale(t.val))>>)
    [] t.cat = "user" -> UserV([i \in 1..Len(t.fields) |-> Stale(t.fields[i])])

TypesOf(vs) == [i \in 1..Len(vs) |-> vs[i].t]

\* Destinations of types the bytes under the cursor need not have.
StrayDests == {<<DefaultOf(I32)>>, <<Stale(SeqT("vector", I32))>>}

\* ------------------------------------------------------------------- state
VARIABLES
  bigEndian,      \* the host's byte order (what endianTest finds)
  bytes,          \* Pak::bytes
  reserveSize,    \* Pak::reserveSize
  writePosition,  \* Pak::writePosition
  readPosition,   \* Pak::readPosition
  pc,             \* where the caller is: "idle", inside write ("reserved",
                  \* "resized"), "aborted" (write left by an exception of a
                  \* hook) or "crashed"
  pending,        \* the arguments of the write call in progress
  calls,          \* calls of write and read begun
  written,        \* the argument lists of the completed write calls
  reads           \* the completed read calls: the destinations before (dests)
                  \* and after (vs), the cursor before (at) and the write
                  \* calls completed by then (after)

vars == <<bigEndian, bytes, reserveSize, writePosition, readPosition,
          pc, pending, calls, written, reads>>

NoCall == [args |-> <<>>, added |-> <<>>]

Init ==
  /\ bigEndian \in BOOLEAN
  /\ bytes = <<>>
  /\ reserveSize = 0
  /\ writePosition = 0
  /\ readPosition = 0
  /\ pc = "idle"
  /\ pending = NoCall
  /\ calls = 0
  /\ written = <<>>
  /\ reads = <<>>

Callable == pc \in {"idle", "aborted"}

\* -------------------------------------------------------------------- write
\* WriteReserve with the vector grown while the sizes are added up.
WriteReserveGrowing(args) ==
  /\ Callable
  /\ calls < MaxCalls
  /\ reserveSize' = reserveSize + SumSeq(parseReserveArgs(args))
  /\ bytes' = bytes \o [i \in 1..SumSeq(parseReserveArgs(args)) |-> 0]
  /\ pending' = [args |-> args, added |-> parseReserveArgs(args)]
  /\ calls' = calls + 1
  /\ pc' = "reserved"
  /\ UNCHANGED <<bigEndian, writePosition, readPosition, written, reads>>

\* write, line 99: parse(Op<Reserve>{*this}, args...)
WriteReserve(args) ==
  /\ Callable
  /\ calls < MaxCalls
  /\ reserveSize' = reserveSize + SumSeq(parseReserveArgs(args))
  /\ pending' = [args |-> args, added |-> parseReserveArgs(args)]
  /\ calls' = calls + 1
  /\ pc' = "reserved"
  /\ UNCHANGED <<bigEndian, bytes, writePosition, readPosition, written, reads>>

\* write, line 99, left by an exception: the serialize hook of argument k
\* throws once it has forwarded j of its fields.
WriteReserveThrows(args, k, j) ==
  /\ Callable
  /\ calls < MaxCalls
  /\ args[k].t.cat = "user"
  /\ reserveSize' = reserveSize
       + SumSeq(parseReserveArgs(SubSeq(args, 1, k - 1)))
       + SumSeq(parseReserveArgs(SubSeq(args[k].fields, 1, j)))
  /\ calls' = calls + 1
  /\ pc' = "aborted"
  /\ pending' = NoCall
  /\ UNCHANGED <<bigEndian, bytes, writePosition, readPosition, written, reads>>

\* write, line 100: bytes.resize(bytes.size() + reserveSize)
WriteResize ==
  /\ pc = "reserved"
  /\ bytes' = bytes \o [i \in 1..reserveSize |-> 0]
  /\ pc' = "resized"
  /\ UNCHANGED <<bigEndian, reserveSize, writePosition, readPosition,
                 pending, calls, written, reads>>

\* The vector after the bytes run are stored from offset at on (a byte stored
\* behind the end of the vector is not one of the vector's).
Store(buf, at, run) ==
  [i \in 1..Len(buf) |-> IF i > at /\ i <= at + Len(run) THEN run[i - at] ELSE buf[i]]

\* write, line 101: parse(Op<Write>{*this}, args...)
WriteWrite(junk) ==
  /\ pc = "resized"
  /\ LET run == Flatten(parseWriteArgs(pending.args, bigEndian, junk)) IN
       /\ bytes' = Store(bytes, writePosition, run)
       /\ writePosition' = writePosition + Len(run)
  /\ written' = Append(written, pending.args)
  /\ pending' = NoCall
  /\ pc' = "idle"
  /\ UNCHANGED <<bigEndian, reserveSize, readPosition, calls, reads>>

\* write, line 101, copying from behind the first node of a deque (the bytes
\* stored depend on memory that is no object's): the process may die there.
WriteCrash ==
  /\ pc = "resized"
  /\ \E j1, j2 \in Junk :
       parseWriteArgs(pending.args, bigEndian, j1) # parseWriteArgs(pending.args, bigEndian, j2)
  /\ pc' = "crashed"
  /\ UNCHANGED <<bigEndian, bytes, reserveSize, writePosition, readPosition,
                 pending, calls, written, reads>>

\* --------------------------------------------------------------------- read
\* The destinations a caller hands to read: those the next unread write call
\* asks for (fresh or holding earlier content), or others.
Dests ==
  StrayDests \cup
    (IF Len(reads) < Len(written)
     THEN LET ts == TypesOf(written[Len(reads) + 1]) IN
          {[i \in 1..Len(ts) |-> DefaultOf(ts[i])], [i \in 1..Len(ts) |-> Stale(ts[i])]}
     ELSE {})

\* read(args...): parse(Op<Read>{*this}, args...)
Read(dests, junk) ==
  /\ Callable
  /\ calls < MaxCalls
  /\ LET r == parseReadEach(dests, bytes, readPosition, bigEndian, junk) IN
       /\ ~r.big
       /\ readPosition' = r.rp
       /\ reads' = Append(reads, [dests |-> dests, vs |-> r.vs, at |-> readPosition,
                                 after |-> Len(written)])
  /\ calls' = calls + 1
  /\ pc' = "idle"
  /\ UNCHANGED <<bigEndian, bytes, reserveSize, writePosition, pending, written>>

\* read(args...) that reads behind the end of the vector, copies behind the
\* first node of a deque or resizes a destination to a count no allocation
\* serves: the process may die there.
ReadCrash(dests, junk) ==
  /\ Callable
  /\ calls < MaxCalls
  /\ LET r == parseReadEach(dests, bytes, readPosition, bigEndian, junk) IN r.oob \/ r.big
  /\ pc' = "crashed"
  /\ UNCHANGED <<bigEndian, bytes, reserveSize, writePosition, readPosition,
                 pending, calls, written, reads>>

Next ==
  \/ \E args \in ArgLists : WriteReserve(args)
  \/ \E args \in ArgLists : \E k \in 1..Len(args) :
       \E j \in 0..(IF args[k].t.cat = "user" THEN Len(args[k].fields) ELSE 0) :
         WriteReserveThrows(args, k, j)
  \/ WriteResize
  \/ \E junk \in Junk : WriteWrite(junk)
  \/ WriteCrash
  \/ \E dests \in Dests : \E junk \in Junk : Read(dests, junk)
  \/ \E dests \in Dests : \E junk \in Junk : ReadCrash(dests, junk)

Spec == Init /\ [][Next]_vars

\* ================================================================== claims
\* The bytes one value is encoded to, and their number.
Encoding(v) == Flatten(parseWrite(v, bigEndian, 0))
EncodedSize(args) == Len(Flatten(parseWriteArgs(args, bigEndian, 0)))

\* Where in the buffer the i-th completed write call, and its k-th argument, begin.
Offset(i) == SumSeq([j \in 1..(i - 1) |-> EncodedSize(written[j])])
ArgOffset(i, k) == Offset(i) + EncodedSize(SubSeq(written[i], 1, k - 1))

\* C1: after every completed write call (of a run in which every call
\* completed) size() equals the write cursor and equals the sum of the
\* encoded sizes of everything written so far: no unwritten bytes at the end.
C1_SizeIsCursorIsSum ==
  (Callable /\ calls = Len(written) + Len(reads)) =>
    /\ Len(bytes) = writePosition
    /\ writePosition = SumSeq([i \in 1..Len(written) |-> EncodedSize(written[i])])

\* The read calls 1..k follow the sequential protocol: the i-th read came
\* after the i-th write and its destinations have the types written there.
InProtocol(k) ==
  \A i \in 1..k :
    /\ i <= reads[i].after
    /\ TypesOf(reads[i].dests) = TypesOf(written[i])

\* C2: under the sequential protocol every destination ends up equal to the
\* value written at the same position, and once every write call has been
\* read the read cursor equals the write cursor.
C2_RoundTrip ==
  Callable =>
    \A k \in 1..Len(reads) :
      InProtocol(k) =>
        /\ reads[k].vs = written[k]
        /\ (k = Len(reads) /\ k = Len(written)) => readPosition = writePosition

\* C3: in every reachable state the write cursor and the read cursor are at
\* most the buffer length (a read that would pass the end does not advance).
C3_CursorsInBounds ==
  writePosition <= Len(bytes) /\ readPosition <= Len(bytes)

\* C4: every arithmetic argument of a completed write call lies in the buffer
\* least significant byte first, whatever the host's byte order, and decoding
\* those bytes on a host of either byte order gives the value back.
C4_LittleEndianWire ==
  Callable =>
    \A i \in 1..Len(written) : \A k \in 1..Len(written[i]) :
      LET v == written[i][k]
          at == ArgOffset(i, k)
      IN v.t.cat = "prim" =>
           /\ SubSeq(bytes, at + 1, at + v.t.w) = v.d
           /\ \A host \in BOOLEAN : parseReadPrimitive(v.t, bytes, at, host, 0).v = v

\* What the wire format asks of one value, given its elements' own encodings:
\* a count (4 bytes, least significant first) and the elements of a dynamic
\* sequence or a map; only the elements of a raw array, a std::array, a pair.
Framing(v) ==
  CASE v.t.cat = "seq" ->
         Digits(Len(v.elems), 4) \o Flatten([j \in 1..Len(v.elems) |-> Encoding(v.elems[j])])
    [] v.t.cat = "map" ->
         Digits(Len(v.entries), 4) \o Flatten([j \in 1..Len(v.entries) |-> Encoding(v.entries[j])])
    [] v.t.cat \in {"rawarray", "stdarray"} ->
         Flatten([j \in 1..Len(v.elems) |-> Encoding(v.elems[j])])
    [] v.t.cat = "pair" -> Encoding(v.first) \o Encoding(v.second)

\* C5: every dynamic sequence, map, raw array, std::array and pair among the
\* arguments of a completed write call lies in the buffer framed as the wire
\* format says.
C5_WireFraming ==
  Callable =>
    \A i \in 1..Len(written) : \A k \in 1..Len(written[i]) :
      LET v == written[i][k]
          at == ArgOffset(i, k)
          want == Framing(v)
      IN v.t.cat \in {"seq", "map", "rawarray", "stdarray", "pair"} =>
           SubSeq(bytes, at + 1, at + Len(want)) = want

\* The count and the elements the bytes from offset at on decode to, for
\* elements of the arithmetic type e and for map entries of type PairT(k, v).
DecodedCount(at) == CountOf(parseReadPrimitive(U32, bytes, at, bigEndian, 0).v.d)
DecodedElem(e, at, i) ==
  parseReadPrimitive(e, bytes, at + CountBytes + (i - 1) * e.w, bigEndian, 0).v
DecodedEntry(t, at, i) ==
  LET size == t.key.w + t.val.w
      from == at + CountBytes + (i - 1) * size
  IN PairV(parseReadPrimitive(t.key, bytes, from, bigEndian, 0).v,
           parseReadPrimitive(t.val, bytes, from + t.key.w, bigEndian, 0).v)

\* What the read call rd (of one destination, its count inside the buffer)
\* leaves in the destination.
ReplacesContent(rd) ==
    LET d == rd.dests[1]
        r == rd.vs[1]
        at == rd.at
        n == DecodedCount(at)
    IN (Len(rd.dests) = 1 /\ at + CountBytes <= Len(bytes)) =>
         /\ (d.t.cat = "seq" /\ d.t.elem.cat = "prim") =>
              /\ Len(r.elems) = n
              /\ \A i \in 1..n :
                   at + CountBytes + i * d.t.elem.w <= Len(bytes) =>
                     r.elems[i] = DecodedElem(d.t.elem, at, i)
         /\ (d.t.cat = "map" /\ at + CountBytes + n * (d.t.key.w + d.t.val.w) <= Len(bytes)) =>
              {r.entries[i] : i \in 1..Len(r.entries)}
                = {DecodedEntry(d.t, at, i) : i \in 1..n}

\* The step is a completed read call.
ReadStep == Len(reads') = Len(reads) + 1

\* C6: a read into one dynamic container, whatever it held before, leaves in
\* a sequence exactly count elements, each the decoded element of its index,
\* and in a map exactly the decoded entries.
C6_ReadReplacesContent ==
  [][ReadStep => ReplacesContent(reads'[Len(reads')])]_vars

\* The range of v takes the contiguous-range path.
TakesFastPath(v) ==
  /\ v.t.cat \in {"stdarray", "seq"}
  /\ enable_if_contiguous_range(IteratorOf(v.t), v.t.elem)
PrefixOf(v) == IF v.t.cat = "seq" THEN CountBytes ELSE 0

\* Every fast-path range written lies in the buffer as its elements written
\* one by one would, and takes as many bytes.
WrittenAsEach ==
  Callable =>
    \A i \in 1..Len(written) : \A k \in 1..Len(written[i]) :
      LET v == written[i][k]
          at == ArgOffset(i, k) + PrefixOf(v)
          each == Flatten([j \in 1..Len(v.elems) |->
                    Flatten(parseWritePrimitive(v.t.elem, v.elems[j].d, bigEndian))])
      IN TakesFastPath(v) =>
           /\ SubSeq(bytes, at + 1, at + Len(each)) = each
           /\ EncodedSize(<<v>>) = PrefixOf(v) + Len(each)

\* The read call rd of one fast-path range ends with the elements and the
\* cursor that reading its elements one by one gives.
ReadAsEach(rd) ==
  LET r == rd.vs[1]
      at == rd.at + PrefixOf(r)
      each == parseReadEach(r.elems, bytes, at, bigEndian, 0)
  IN (Len(rd.dests) = 1 /\ TakesFastPath(r) /\ ~each.oob) =>
       r.elems = each.vs /\ readPosition' = each.rp

\* C7: a range that takes the contiguous-range path is written to the bytes,
\* and read to the values and the cursor, that the visit of its elements one
\* by one through the primitive handlers gives.
C7_FastPathEquivalence ==
  []WrittenAsEach /\ [][ReadStep => ReadAsEach(reads'[Len(reads')])]_vars

\* The step is the Reserve pass of a write call, completed or left by an
\* exception of a hook.
ReserveStep ==
  /\ Callable
  /\ calls' = calls + 1
  /\ pc' \in {"reserved", "aborted"}

\* C8: the Reserve pass of a write call changes neither the bytes, the length
\* of the buffer, the write cursor nor the read cursor, also when a hook ends
\* it by an exception.
C8_ReserveLeavesBuffer ==
  [][ReserveStep =>
       /\ bytes' = bytes
       /\ writePosition' = writePosition
       /\ readPosition' = readPosition]_vars

\* A write call left during Reserve, after its hook had reserved some of its
\* fields, on a Pak that holds the bytes of an earlier write call.
C8_Witness ==
  /\ pc = "aborted"
  /\ Len(written) = 1
  /\ Len(bytes) > 0
  /\ reserveSize > writePosition

\* The step is the Write pass of a write call.
WritePassStep == pc = "resized" /\ pc' = "idle"

\* C9: the Write pass stores, handler by handler and in the same order, as
\* many bytes as the Reserve pass of the same call added to reserveSize, and
\* advances the write cursor by the sum.
C9_ReserveWriteSymmetric ==
  [][WritePassStep =>
       LET runs == parseWriteArgs(pending.args, bigEndian, 0) IN
         /\ [i \in 1..Len(runs) |-> Len(runs[i])] = pending.added
         /\ writePosition' - writePosition = SumSeq(pending.added)]_vars

\* The argument list of every category has been written.
C9_Witness ==
  /\ pc = "idle"
  /\ \E i \in 1..Len(written) : written[i] = Mixed
  /\ \E i \in 1..Len(written) : written[i] = Fixed
  /\ writePosition = EncodedSize(Mixed) + EncodedSize(Fixed)

\* The number of bytes the wire format gives a value.
RECURSIVE WireSize(_)
WireSize(v) ==
  CASE v.t.cat = "prim" -> v.t.w
    [] v.t.cat = "pair" -> WireSize(v.first) + WireSize(v.second)
    [] v.t.cat \in {"rawarray", "stdarray"} ->
         SumSeq([i \in 1..Len(v.elems) |-> WireSize(v.elems[i])])
    [] v.t.cat = "seq" ->
         4 + SumSeq([i \in 1..Len(v.elems) |-> WireSize(v.elems[i])])
    [] v.t.cat = "map" ->
         4 + SumSeq([i \in 1..Len(v.entries) |-> WireSize(v.entries[i])])
    [] v.t.cat = "user" ->
         SumSeq([i \in 1..Len(v.fields) |-> WireSize(v.fields[i])])

ReadsAndWritesApart ==
  /\ ReadStep =>
       LET vs == reads'[Len(reads')].vs IN
         /\ readPosition' = readPosition + SumSeq([i \in 1..Len(vs) |-> WireSize(vs[i])])
         /\ bytes' = bytes
         /\ writePosition' = writePosition
         /\ reserveSize' = reserveSize
  /\ ~ReadStep =>
       /\ readPosition' = readPosition
       /\ SubSeq(bytes', 1, writePosition) = SubSeq(bytes, 1, writePosition)

\* C10: a read call advances the read cursor by the wire size of what it read
\* and leaves the bytes, the length, the write cursor and reserveSize alone;
\* every step of a write call leaves the read cursor and the bytes below the
\* write cursor alone.
C10_ReadsAndWritesApart == [][ReadsAndWritesApart]_vars

\* A write call, a read call of what it wrote, and a second write call.
C10_Witness ==
  /\ pc = "idle"
  /\ Len(written) = 2
  /\ Len(reads) = 1
  /\ reads[1].after = 1
  /\ reads[1].vs = written[1]
  /\ readPosition > 0
  /\ writePosition > readPosition

====
